---- MODULE Spec2Model ----
(***************************************************************************)
(* State-machine model of the FlipViewWindows React component              *)
(* (Libraries/Components/FlipViewWindows/FlipViewWindows.windows.js).      *)
(*                                                                         *)
(* JavaScript values are tagged records so that values of different JS     *)
(* types can be told apart and compared: the tag is the field t.           *)
(***************************************************************************)
EXTENDS Integers, Sequences, FiniteSets, TLC

VARIABLES
  self,       \* the component instance (`this`)
  phase,      \* "constructed" | "rendered" | "mounted" | "crashed"
  props,      \* this.props
  rendered,   \* the element returned by the last render() that completed
  commands,   \* UIManager.dispatchViewManagerCommand calls, in dispatch order
  calls,      \* invocations of the user's onSelectionChange callbacks, in order
  warnings,   \* console.warn calls, in order
  arrived,    \* history: selection-change events received from the native layer
  requested,  \* history: arguments of the explicit setPage calls
  mountProps, \* history: this.props at componentDidMount (Undefined before)
  updates     \* history: number of re-renders after mount

vars == <<self, phase, props, rendered, commands, calls, warnings,
          arrived, requested, mountProps, updates>>

----------------------------------------------------------------------------
(* Bounds of the model *)

MaxChildren == 3       \* longest child list given to render()
MaxSteps == 4          \* setPage calls, events and re-renders after mount

----------------------------------------------------------------------------
(* JavaScript values *)

Undefined == [t |-> "undefined"]
Null == [t |-> "null"]
Num(n) == [t |-> "number", v |-> n]
Str(s) == [t |-> "string", v |-> s]
Bool(b) == [t |-> "boolean", v |-> b]
Fn(name) == [t |-> "function", v |-> name]
Obj(name) == [t |-> "object", v |-> name]
Arr(seq) == [t |-> "array", v |-> seq]
Element(type, p) == [t |-> "element", type |-> type, props |-> p]

\* ToBoolean: the values JavaScript treats as false in `if (x)` and `!x`
Truthy(x) ==
  CASE x.t = "undefined" -> FALSE
    [] x.t = "null" -> FALSE
    [] x.t = "boolean" -> x.v
    [] x.t = "number" -> x.v # 0
    [] x.t = "string" -> x.v # ""
    [] OTHER -> TRUE

\* property read o.k of a props object: an absent property reads as undefined
Get(p, k) == IF k \in DOMAIN p THEN p[k] ELSE Undefined

\* component types: a class/function with an optional displayName
CompType(id, dn) == [id |-> id, displayName |-> dn]

ViewType == CompType("View", Str("View"))
RCTViewType == CompType("RCTView", Str("RCTView"))
TextType == CompType("Text", Str("Text"))
CompositeType == CompType("MyPage", Undefined)   \* an ES6 class: no displayName

----------------------------------------------------------------------------
(* render(): lines 99-128 and 147-158 *)

\* the fixed override of line 109-117
FillOverride ==
  [position |-> Str("absolute"), left |-> Num(0), top |-> Num(0),
   right |-> Num(0), bottom |-> Num(0),
   width |-> Undefined, height |-> Undefined]

\* variant: the override is put first, so that the child's own style wins
NewProps_overrideFirst(p) ==
  [k \in DOMAIN p \cup {"style", "collapsable"} |->
     IF k = "style" THEN Arr(<<FillOverride, Get(p, "style")>>)
     ELSE IF k = "collapsable" THEN Bool(FALSE)
     ELSE p[k]]

\* newProps of lines 107-119: the spread of child.props, then style and
\* collapsable written over it
NewProps(p) ==
  [k \in DOMAIN p \cup {"style", "collapsable"} |->
     IF k = "style" THEN Arr(<<Get(p, "style"), FillOverride>>)
     ELSE IF k = "collapsable" THEN Bool(FALSE)
     ELSE p[k]]

\* variant: only 'View' is exempt
ShouldWarn_viewOnly(type) ==
  /\ Truthy(type.displayName)
  /\ type.displayName # Str("View")

\* the condition of lines 120-123
ShouldWarn(type) ==
  /\ Truthy(type.displayName)
  /\ type.displayName # Str("RCTView")
  /\ type.displayName # Str("View")

\* the text of line 124
WarnText(type) == "Each FlipView child must be a <View>. Was " \o type.displayName.v

\* variant: an empty child is returned as it is instead of null
OverrideChild_returnsChild(child) ==
  IF ~Truthy(child)
    THEN [threw |-> FALSE, value |-> child, warn |-> <<>>]
  ELSE IF child.t # "element"
    THEN [threw |-> TRUE, value |-> Undefined, warn |-> <<>>]
  ELSE [threw |-> FALSE,
        value |-> Element(child.type, NewProps(child.props)),
        warn |-> IF ShouldWarn(child.type) THEN <<WarnText(child.type)>> ELSE <<>>]

\* The callback given to React.Children.map, lines 103-127.  The result is
\* the value returned (value), the console.warn calls made (warn), and threw
\* when the evaluation ends in a TypeError: a child that is truthy and not
\* an element (a text string, a number) has no props, and line 109 reads
\* child.props.style of undefined.
OverrideChild(child) ==
  IF ~Truthy(child)
    THEN [threw |-> FALSE, value |-> Null, warn |-> <<>>]
  ELSE IF child.t # "element"
    THEN [threw |-> TRUE, value |-> Undefined, warn |-> <<>>]
  ELSE [threw |-> FALSE,
        value |-> Element(child.type, NewProps(child.props)),
        warn |-> IF ShouldWarn(child.type) THEN <<WarnText(child.type)>> ELSE <<>>]

\* React.Children.map hands undefined and boolean children to the callback
\* as null
Normalise(child) == IF child.t \in {"undefined", "boolean"} THEN Null ELSE child

\* React.Children.map over a flat child list, from index i on: the callback
\* is applied in order, results that are null or undefined are left out, and
\* an exception of the callback ends the traversal.
RECURSIVE MapFrom(_, _)
MapFrom(seq, i) ==
  IF i > Len(seq)
    THEN [threw |-> FALSE, out |-> <<>>, warn |-> <<>>]
  ELSE LET r == OverrideChild(Normalise(seq[i])) IN
    IF r.threw
      THEN [threw |-> TRUE, out |-> <<>>, warn |-> r.warn]
    ELSE LET rest == MapFrom(seq, i + 1) IN
      [threw |-> rest.threw,
       out |-> (IF r.value.t \in {"null", "undefined"} THEN <<>> ELSE <<r.value>>)
                 \o rest.out,
       warn |-> r.warn \o rest.warn]

\* _childrenWithOverridenStyle, lines 99-128.  React.Children.map returns
\* null/undefined children as they are.
childrenWithOverridenStyle(p) ==
  IF p.children.t \in {"undefined", "null"}
    THEN [threw |-> FALSE, value |-> p.children, warn |-> <<>>]
  ELSE LET m == MapFrom(p.children.v, 1) IN
    [threw |-> m.threw, value |-> Arr(m.out), warn |-> m.warn]

\* render, lines 147-158
render(p) ==
  LET c == childrenWithOverridenStyle(p) IN
    [threw |-> c.threw,
     warn |-> c.warn,
     value |-> IF c.threw THEN Undefined
               ELSE Element("WindowsFlipView",
                      [ref |-> Str("flipView"),
                       style |-> p.style,
                       alwaysAnimate |-> p.alwaysAnimate,
                       onSelectionChange |-> Fn("_onSelectionChange"),
                       selectedIndex |-> p.selectedIndex,
                       children |-> c.value])]

----------------------------------------------------------------------------
(* the other methods *)

\* ReactNative.findNodeHandle(this): the native tag of the instance
findNodeHandle(inst) == [t |-> "reactTag", of |-> inst]

\* variant: a page outside the child list is not dispatched
setPage_boundsChecked(selectedPage) ==
  IF selectedPage.v < 0 \/ selectedPage.v >= Len(props.children.v)
    THEN commands
    ELSE Append(commands, [handle |-> findNodeHandle(self),
                           command |-> "setPage",
                           args |-> <<selectedPage>>])

\* variant: a call that repeats the last dispatch is not dispatched
setPage_coalescing(selectedPage) ==
  LET c == [handle |-> findNodeHandle(self), command |-> "setPage",
            args |-> <<selectedPage>>] IN
    IF commands # <<>> /\ commands[Len(commands)] = c
      THEN commands ELSE Append(commands, c)

\* setPage, lines 139-145: the dispatch log after the call
setPage(selectedPage) ==
  Append(commands, [handle |-> findNodeHandle(self),
                    command |-> "setPage",
                    args |-> <<selectedPage>>])

\* variant: the initial page is set without looking at it
componentDidMount_always == setPage(props.initialPage)

\* componentDidMount, lines 89-93: the dispatch log after the call
componentDidMount ==
  IF Truthy(props.initialPage) THEN setPage(props.initialPage) ELSE commands

\* variant: a duplicate registration makes the callback run twice
onSelectionChange_twice(e) ==
  IF Truthy(props.onSelectionChange)
    THEN calls \o << [callback |-> props.onSelectionChange, arg |-> e],
                     [callback |-> props.onSelectionChange, arg |-> e] >>
    ELSE calls

\* variant: the callback is the one that was configured at mount
onSelectionChange_atMount(e) ==
  IF Truthy(mountProps.onSelectionChange)
    THEN Append(calls, [callback |-> mountProps.onSelectionChange, arg |-> e])
    ELSE calls

\* _onSelectionChange, lines 130-134: the callback log after the call
onSelectionChange(e) ==
  IF Truthy(props.onSelectionChange)
    THEN Append(calls, [callback |-> props.onSelectionChange, arg |-> e])
    ELSE calls

----------------------------------------------------------------------------
(* Inputs *)

Instances == {"flipViewA", "flipViewB"}
Pages == {Num(-1), Num(0), Num(2)}   \* below 0, a page, past the last page
Positions == {0, 1}
Callbacks == {Undefined, Fn("onChangeA"), Fn("onChangeB")}

NoProps == [k \in {} |-> Undefined]
PageStyle == [style |-> Obj("pageStyle")]
FullProps == [style |-> Obj("pageStyle"), collapsable |-> Bool(TRUE), testID |-> Str("page")]
ChildProps == {NoProps, PageStyle, FullProps}
ChildTypes == {ViewType, RCTViewType, TextType, CompositeType}
Elements == {Element(ty, p) : ty \in ChildTypes, p \in ChildProps}

\* what a child list can hold: the empty values, text and number children,
\* and elements
ChildValues ==
  {Null, Undefined, Bool(FALSE), Bool(TRUE), Num(0), Num(5), Str(""), Str("text")}
    \cup Elements

SeqsUpTo(S, n) == UNION {[1 .. m -> S] : m \in 0 .. n}

ChildLists == {Undefined} \cup {Arr(s) : s \in SeqsUpTo(ChildValues, MaxChildren)}

\* the child lists of the lifecycle specification: two pages; a page and a
\* text child
LifecycleChildren ==
  {Arr(<<Element(ViewType, PageStyle), Element(TextType, NoProps)>>),
   Arr(<<Element(ViewType, PageStyle), Str("text")>>)}

MkProps(ip, cb, si, ch) ==
  [initialPage |-> ip, alwaysAnimate |-> Bool(TRUE), onSelectionChange |-> cb,
   style |-> Obj("flipView"), selectedIndex |-> si, children |-> ch]

InitialPages == {Undefined, Num(0), Num(1)}
SelectedIndexes == {Undefined, Num(1)}

LifecycleProps ==
  {MkProps(ip, cb, si, ch) : ip \in InitialPages, cb \in Callbacks,
                             si \in SelectedIndexes, ch \in LifecycleChildren}

RenderProps == {MkProps(Undefined, Undefined, Undefined, ch) : ch \in ChildLists}

----------------------------------------------------------------------------
(* Actions *)

\* the first render() of the instance; an exception of render() ends the
\* lifecycle before componentDidMount
FirstRender ==
  /\ phase = "constructed"
  /\ LET r == render(props) IN
       /\ warnings' = warnings \o r.warn
       /\ phase' = IF r.threw THEN "crashed" ELSE "rendered"
       /\ rendered' = IF r.threw THEN rendered ELSE r.value
  /\ UNCHANGED <<self, props, commands, calls, arrived, requested, mountProps, updates>>

\* componentDidMount, called by React after the first render is committed
DidMount ==
  /\ phase = "rendered"
  /\ commands' = componentDidMount
  /\ mountProps' = props
  /\ phase' = "mounted"
  /\ UNCHANGED <<self, props, rendered, calls, warnings, arrived, requested, updates>>

\* operations performed since mount
Steps == Len(requested) + Len(arrived) + updates

\* the props the parent can pass next: the same props, or one prop changed
NextProps(p) ==
  {p} \cup {[p EXCEPT !.initialPage = ip] : ip \in InitialPages}
      \cup {[p EXCEPT !.onSelectionChange = cb] : cb \in Callbacks}
      \cup {[p EXCEPT !.selectedIndex = si] : si \in SelectedIndexes}
      \cup {[p EXCEPT !.children = ch] : ch \in LifecycleChildren}

\* the parent re-renders the component with the props np
Update(np) ==
  /\ phase = "mounted"
  /\ Steps < MaxSteps
  /\ updates' = updates + 1
  /\ props' = np
  /\ LET r == render(np) IN
       /\ warnings' = warnings \o r.warn
       /\ phase' = IF r.threw THEN "crashed" ELSE "mounted"
       /\ rendered' = IF r.threw THEN rendered ELSE r.value
  /\ UNCHANGED <<self, commands, calls, arrived, requested, mountProps>>

\* the native control reports a selection change: the handler given to it
\* at line 153 runs with a fresh event object
SelectionChange(position) ==
  /\ phase = "mounted"
  /\ Steps < MaxSteps
  /\ LET e == [id |-> Len(arrived) + 1, nativeEvent |-> [position |-> position]] IN
       /\ calls' = onSelectionChange(e)
       /\ arrived' = Append(arrived, [event |-> e, configured |-> props.onSelectionChange])
  /\ UNCHANGED <<self, phase, props, rendered, commands, warnings, requested, mountProps, updates>>

\* the holder of a ref calls setPage(k)
SetPage(k) ==
  /\ phase = "mounted"
  /\ Steps < MaxSteps
  /\ commands' = setPage(k)
  /\ requested' = Append(requested, k)
  /\ UNCHANGED <<self, phase, props, rendered, calls, warnings, arrived, mountProps, updates>>

Init ==
  /\ self \in Instances
  /\ phase = "constructed"
  /\ props \in LifecycleProps
  /\ rendered = Undefined
  /\ commands = <<>>
  /\ calls = <<>>
  /\ warnings = <<>>
  /\ arrived = <<>>
  /\ requested = <<>>
  /\ mountProps = Undefined
  /\ updates = 0

Next ==
  \/ FirstRender
  \/ DidMount
  \/ \E np \in NextProps(props) : Update(np)
  \/ \E position \in Positions : SelectionChange(position)
  \/ \E k \in Pages : SetPage(k)

Spec == Init /\ [][Next]_vars

\* render() as a function of the child list
InitRender ==
  /\ self \in Instances
  /\ phase = "constructed"
  /\ props \in RenderProps
  /\ rendered = Undefined
  /\ commands = <<>>
  /\ calls = <<>>
  /\ warnings = <<>>
  /\ arrived = <<>>
  /\ requested = <<>>
  /\ mountProps = Undefined
  /\ updates = 0

NextRender == FirstRender

SpecRender == InitRender /\ [][NextRender]_vars

----------------------------------------------------------------------------
(* Vocabulary of the properties *)

\* the dispatch setPage(k) is to make on the instance inst
ExpectedCommand(inst, k) ==
  [handle |-> [t |-> "reactTag", of |-> inst], command |-> "setPage", args |-> <<k>>]

Range(seq) == {seq[i] : i \in DOMAIN seq}

\* the step is componentDidMount
IsMountStep == phase = "rendered" /\ phase' = "mounted"

\* the child list given to the component, and the one given to the native
\* control by the last render
InputChildren == IF props.children.t = "array" THEN props.children.v ELSE <<>>
RenderedChildren ==
  IF rendered.t = "element" /\ rendered.props.children.t = "array"
    THEN rendered.props.children.v ELSE <<>>

IsNullish(c) == c.t \in {"null", "undefined"}
IsElement(c) == c.t = "element"
\* the empty values: null, undefined, true, false, 0 and ''
IsEmptyValue(c) ==
  \/ c.t \in {"null", "undefined", "boolean"}
  \/ c.t = "number" /\ c.v = 0
  \/ c.t = "string" /\ c.v = ""

\* the rendered child out carries the type, the original style and the
\* other props of the input child in
BuiltFrom(out, in) ==
  /\ IsElement(out) /\ IsElement(in)
  /\ out.type = in.type
  /\ "style" \in DOMAIN out.props
  /\ out.props.style.t = "array"
  /\ Len(out.props.style.v) >= 1
  /\ out.props.style.v[1] = (IF "style" \in DOMAIN in.props THEN in.props.style ELSE Undefined)
  /\ \A k \in DOMAIN in.props \ {"style", "collapsable"} :
       k \in DOMAIN out.props /\ out.props[k] = in.props[k]

InOrder(outs, ins) ==
  /\ Len(outs) = Len(ins)
  /\ \A i \in DOMAIN outs : BuiltFrom(outs[i], ins[i])

----------------------------------------------------------------------------
(* Mount: C1, C2 *)

C2_MountWithoutInitialPage ==
  [][(IsMountStep /\ props.initialPage = Undefined) => commands' = commands]_vars

C2_Witness ==
  /\ phase = "mounted"
  /\ mountProps # Undefined
  /\ mountProps.initialPage = Undefined
  /\ Steps = 0
  /\ commands = <<>>

----------------------------------------------------------------------------
(* setPage: C3 *)

\* C3: every call setPage(k) dispatches exactly one command: the setPage
\* command, on the node handle of this instance, with the argument list
\* <<k>>, for every k, in range or not, repeated or not.
C3_SetPageDispatchesOnce ==
  [][requested' # requested
       => /\ Len(requested') = Len(requested) + 1
          /\ commands' = Append(commands,
                                ExpectedCommand(self, requested'[Len(requested')]))]_vars

\* setPage was called with a negative page, with a page past the last child
\* and twice in a row with the same page
C3_Witness ==
  /\ Num(-1) \in Range(requested)
  /\ \E i \in DOMAIN requested :
       requested[i].v >= Len(InputChildren) /\ Len(InputChildren) > 0
  /\ \E i \in DOMAIN requested :
       i + 1 \in DOMAIN requested /\ requested[i] = requested[i + 1]
  /\ Len(commands) >= Len(requested)

----------------------------------------------------------------------------
(* Selection relay: C6, C9 *)

\* C6: a selection-change event that arrives while a callback is configured
\* makes exactly one invocation of that callback, with that event object;
\* one that arrives while none is configured makes no invocation and no
\* error.
C6_RelayOnce ==
  [][arrived' # arrived
       => LET a == arrived'[Len(arrived')] IN
            /\ Len(arrived') = Len(arrived) + 1
            /\ phase' = "mounted"
            /\ IF a.configured.t = "function"
                 THEN calls' = Append(calls, [callback |-> a.configured, arg |-> a.event])
                 ELSE calls' = calls]_vars

\* one event was relayed and one was dropped
C6_Witness ==
  /\ \E i \in DOMAIN arrived : arrived[i].configured = Undefined
  /\ \E i \in DOMAIN arrived : arrived[i].configured.t = "function"
  /\ Len(calls) >= 1
  /\ Len(calls) < Len(arrived)

Configured(a) == a.configured.t = "function"

\* C9: the invocations are the events in arrival order, one per event that
\* arrived while a callback was configured, each on the callback configured
\* when the event arrived.
C9_RelayInArrivalOrder ==
  LET due == SelectSeq(arrived, Configured) IN
    /\ Len(calls) = Len(due)
    /\ \A i \in DOMAIN calls :
         calls[i] = [callback |-> due[i].configured, arg |-> due[i].event]

\* two events with the same position went to two different callbacks, the
\* later one to a callback configured after mount
C9_Witness ==
  \E i, j \in DOMAIN calls :
    /\ i < j
    /\ calls[i].arg.nativeEvent.position = calls[j].arg.nativeEvent.position
    /\ calls[i].arg.id < calls[j].arg.id
    /\ calls[i].callback # calls[j].callback
    /\ calls[j].callback # mountProps.onSelectionChange

----------------------------------------------------------------------------
(* Dispatch log: C10 *)

\* C10: the commands dispatched are the optional mount-time command followed
\* by one command per setPage call, in call order; nothing is dispatched
\* before the first render and before componentDidMount.
C10_CommandsAreMountThenSetPages ==
  LET explicit == [i \in 1 .. Len(requested) |-> ExpectedCommand(self, requested[i])] IN
    /\ rendered = Undefined => commands = <<>>
    /\ IF mountProps = Undefined
         THEN commands = <<>>
         ELSE \/ commands = explicit
              \/ commands = <<ExpectedCommand(self, mountProps.initialPage)>> \o explicit

\* after a mount-time command: a setPage call, an event, and re-renders that
\* changed initialPage and selectedIndex
C10_Witness ==
  /\ phase = "mounted"
  /\ mountProps # Undefined
  /\ Len(requested) >= 1
  /\ Len(arrived) >= 1
  /\ updates >= 2
  /\ props.initialPage # mountProps.initialPage
  /\ props.initialPage # Undefined
  /\ props.selectedIndex # mountProps.selectedIndex
  /\ Len(commands) = Len(requested) + 1

----------------------------------------------------------------------------
(* render(): C4, C5, C7, C8 *)

NotNullish(c) == ~IsNullish(c)
NotEmptyValue(c) == ~IsEmptyValue(c)

C5_ChildRewritten ==
  phase = "rendered"
    => LET ins == SelectSeq(InputChildren, IsElement) IN
         \A i \in DOMAIN RenderedChildren :
           /\ i \in DOMAIN ins
           /\ RenderedChildren[i].t = "element"
           /\ RenderedChildren[i].type = ins[i].type
           /\ DOMAIN RenderedChildren[i].props = DOMAIN ins[i].props \cup {"style", "collapsable"}
           /\ RenderedChildren[i].props.style =
                [t |-> "array",
                 v |-> << IF "style" \in DOMAIN ins[i].props
                            THEN ins[i].props.style ELSE [t |-> "undefined"],
                          [position |-> [t |-> "string", v |-> "absolute"],
                           left |-> [t |-> "number", v |-> 0],
                           top |-> [t |-> "number", v |-> 0],
                           right |-> [t |-> "number", v |-> 0],
                           bottom |-> [t |-> "number", v |-> 0],
                           width |-> [t |-> "undefined"],
                           height |-> [t |-> "undefined"]] >>]
           /\ RenderedChildren[i].props.collapsable = [t |-> "boolean", v |-> FALSE]
           /\ \A k \in DOMAIN ins[i].props \ {"style", "collapsable"} :
                RenderedChildren[i].props[k] = ins[i].props[k]

\* a child without style and a child with a style, collapsable true and
\* another prop were rewritten
C5_Witness ==
  /\ phase = "rendered"
  /\ Len(RenderedChildren) >= 2
  /\ \E i \in DOMAIN InputChildren :
       IsElement(InputChildren[i]) /\ InputChildren[i].props = NoProps
  /\ \E i \in DOMAIN InputChildren :
       IsElement(InputChildren[i]) /\ InputChildren[i].props = FullProps

\* C7: render() raises no error, whatever the child list.
C7_RenderNeverThrows == phase # "crashed"

\* the children render() gets to: those before the first child that is
\* neither empty nor an element
Reached ==
  LET bad == {i \in DOMAIN InputChildren :
                ~IsEmptyValue(InputChildren[i]) /\ ~IsElement(InputChildren[i])}
      stop == IF bad = {} THEN Len(InputChildren) + 1
              ELSE CHOOSE i \in bad : \A j \in bad : i <= j
  IN SubSeq(InputChildren, 1, stop - 1)

\* the type name is not one of the two expected names: read so that a
\* child without a type name is not a view either
NameIsNotView(c) ==
  ~(IsElement(c) /\ c.type.displayName \in {Str("RCTView"), Str("View")})

\* C8, as stated: one warning for every child element whose type name is
\* not 'RCTView' or 'View'.
C8_WarnsForEveryOtherChild ==
  phase = "rendered"
    => Len(warnings) = Len(SelectSeq(SelectSeq(InputChildren, IsElement), NameIsNotView))

HasOtherDisplayName(c) ==
  /\ IsElement(c)
  /\ c.type.displayName.t = "string"
  /\ c.type.displayName.v \notin {"", "RCTView", "View"}

\* C8, amended: render() warns once, naming the displayName, for every child
\* element it rewrites whose type has a displayName other than 'RCTView' and
\* 'View', and for no other child; the warned children are rewritten and
\* listed like the others.
C8_WarnsForOtherDisplayName ==
  phase \in {"rendered", "crashed"}
    => LET named == SelectSeq(Reached, HasOtherDisplayName) IN
         /\ Len(warnings) = Len(named)
         /\ \A i \in DOMAIN warnings :
              warnings[i] = "Each FlipView child must be a <View>. Was "
                              \o named[i].type.displayName.v
         /\ phase = "rendered"
              => /\ InOrder(RenderedChildren, SelectSeq(InputChildren, IsElement))
                 /\ \A i \in DOMAIN RenderedChildren :
                      RenderedChildren[i].props.collapsable = Bool(FALSE)

\* a view, a warned child and a child of a type without displayName were
\* rendered
C8_Witness ==
  /\ phase = "rendered"
  /\ Len(warnings) = 1
  /\ Len(RenderedChildren) = 3
  /\ \E i \in DOMAIN InputChildren :
       IsElement(InputChildren[i]) /\ InputChildren[i].type = RCTViewType
  /\ \E i \in DOMAIN InputChildren :
       IsElement(InputChildren[i]) /\ InputChildren[i].type = TextType
  /\ \E i \in DOMAIN InputChildren :
       IsElement(InputChildren[i]) /\ InputChildren[i].type = CompositeType

====
